---- MODULE Spec2Model ----
(***************************************************************************)
(* Model of src/main.py (eco-commute-planner): fetch_route,                *)
(* fetch_realtime_data, calculate_emissions and the driver main.           *)
(*                                                                         *)
(* Numbers.  Python floats are modelled in decimal fixed point.  A route's *)
(* distance is an integer number of metres; distance_km and the cost carry *)
(* three decimals (unit 1/Milli); an emission factor carries three         *)
(* decimals, so an emissions value carries six (unit 1/Micro).  A printed  *)
(* "{x:.2f}" is the number of hundredths shown.  The binary float nearest  *)
(* to a decimal tie (x.xx5) may lie on either side of it, so Fmt2 yields   *)
(* both neighbours at a tie.                                               *)
(*                                                                         *)
(* Optional values.  None is the empty tuple and Some(v) the 1-tuple <<v>>.*)
(*                                                                         *)
(* Inputs.  main assigns mode a literal (line 65); the model lets that     *)
(* literal range over the four travel modes and one string outside the     *)
(* factor table.  A decoded body has the shape the code reads: an optional *)
(* 'routes' list of routes with a numeric 'distance', and optional numeric *)
(* 'cost' and 'emissions' fields.  A body that fails to parse raises       *)
(* requests' JSONDecodeError, which is a RequestException in requests      *)
(* 2.27 and later and a plain ValueError before: the installed version     *)
(* decides, so both are modelled (jsonErrorIsRequestException).            *)
(***************************************************************************)
EXTENDS Integers, Sequences, FiniteSets, TLC

VARIABLES
    pc,                  \* position of main: the line it is about to run
    mode,                \* main's local mode (line 65)
    route,               \* main's local route (line 68)
    distance_km,         \* main's local distance_km (line 75)
    real_time_cost,      \* main's local real_time_cost (line 78)
    estimated_emissions, \* main's local estimated_emissions (line 81)
    out,                 \* the lines printed so far, in order
    calls,               \* history: the calls main has made, in order
    fault,               \* the exception that left main uncaught, or "none"
    routingService,      \* what the routing endpoint answers to a GET
    realtimeService,     \* what the real-time endpoint answers to a GET
    jsonErrorIsRequestException
                         \* whether the installed requests raises its JSON
                         \* decode error as a requests.RequestException

vars == <<pc, mode, route, distance_km, real_time_cost, estimated_emissions,
          out, calls, fault, routingService, realtimeService,
          jsonErrorIsRequestException>>

----------------------------------------------------------------------------
(* Bounds and small input sets *)

MaxRoutes == 2

Distances == {0, 5, 100000, 500000}

Costs == {0, 2500}

Modes == {"car", "bus", "bike", "walk", "train"}

ErrorStatuses == {404, 500}

----------------------------------------------------------------------------
(* Values *)

None == << >>

Some(v) == <<v>>

Milli == 1000

Micro == Milli * Milli

start_location == <<40712776, -74005974>>

end_location == <<34052235, -118243683>>

EMISSION_FACTORS == [car |-> 271, bus |-> 105, bike |-> 0, walk |-> 0]

\* bool(x) of an optional dict that, when present, has at least one key
TruthyDict(v) == v # None

\* bool(x) of an optional number
TruthyNumber(v) == v # None /\ v[1] # 0

\* the values "{x:.2f}" can show for x given in units of 1/scale
Fmt2(x, scale) ==
    LET q  == scale \div 100
        lo == x \div q
        r  == x % q
    IN  IF 2 * r < q THEN {lo}
        ELSE IF 2 * r > q THEN {lo + 1}
        ELSE {lo, lo + 1}

----------------------------------------------------------------------------
(* Printed lines *)

RouteErrorLine(e) == [kind |-> "Error fetching route", error |-> e]

RealtimeErrorLine(e) == [kind |-> "Error fetching real-time data", error |-> e]

FactorNotFoundLine(m) == [kind |-> "Emission factor not found", mode |-> m]

NoRouteLine == [kind |-> "Couldn't retrieve the route."]

HeaderLine(m) ==
    [kind |-> "Route from", start |-> start_location, end |-> end_location,
     mode |-> m]

DistanceLine(h) == [kind |-> "Distance", hundredths |-> h]

CostLine(h) == [kind |-> "Estimated cost", hundredths |-> h]

EmissionsLine(h) == [kind |-> "Estimated emissions", hundredths |-> h]

----------------------------------------------------------------------------
(* The two services *)

ConnectionError == [kind |-> "ConnectionError"]

Response(s, j) == [kind |-> "Response", status |-> s, json |-> j]

\* sequences over S of length 0..n
RECURSIVE SeqUpTo(_, _)
SeqUpTo(S, n) ==
    IF n = 0 THEN {<< >>}
    ELSE LET shorter == SeqUpTo(S, n - 1)
         IN  shorter \cup {Append(s, x) : s \in shorter, x \in S}

Routes == {[distance |-> d] : d \in Distances}

\* the decoded body of a routing response: 'routes' missing, or a list
RoutingBodies ==
    {[routes |-> None]} \cup {[routes |-> Some(l)] : l \in SeqUpTo(Routes, MaxRoutes)}

\* a response is a connection error, an error status, or a 200 whose body
\* either fails to parse (json = None) or decodes to a value
RoutingResponses ==
    {ConnectionError}
    \cup {Response(s, None) : s \in ErrorStatuses}
    \cup {Response(200, None)}
    \cup {Response(200, Some(b)) : b \in RoutingBodies}

OptCosts == {None} \cup {Some(c) : c \in Costs}

RealtimeBodies == [cost : OptCosts, emissions : {None, Some(42)}]

RealtimeResponses ==
    {ConnectionError}
    \cup {Response(s, None) : s \in ErrorStatuses}
    \cup {Response(200, None)}
    \cup {Response(200, Some(b)) : b \in RealtimeBodies}

----------------------------------------------------------------------------
(* The three functions.  Each yields what it returns (ret), what it prints *)
(* (printed) and the exception it lets escape (raised, "none" if none).    *)

Returned(r, p) == [ret |-> r, printed |-> p, raised |-> "none"]

Raised(e) == [ret |-> None, printed |-> << >>, raised |-> e]


\* fetch_route without its except clause: a transport error escapes
fetch_route_reraise(resp, jsonCaught) ==
    IF resp.kind = "ConnectionError"
    THEN Raised("ConnectionError")
    ELSE IF resp.status >= 400
    THEN Raised("HTTPError")
    ELSE IF resp.json = None
    THEN Raised("JSONDecodeError")
    ELSE LET data == resp.json[1]
         IN  IF data.routes # None /\ data.routes[1] # << >>
             THEN Returned(Some(data.routes[1][1]), << >>)
             ELSE Raised("Exception: No route found")

\* fetch_route returning data['routes'][-1]
fetch_route_last(resp, jsonCaught) ==
    IF resp.kind = "ConnectionError"
    THEN Returned(None, <<RouteErrorLine("ConnectionError")>>)
    ELSE IF resp.status >= 400
    THEN Returned(None, <<RouteErrorLine("HTTPError")>>)
    ELSE IF resp.json = None
    THEN IF jsonCaught
         THEN Returned(None, <<RouteErrorLine("JSONDecodeError")>>)
         ELSE Raised("JSONDecodeError")
    ELSE LET data == resp.json[1]
         IN  IF data.routes # None /\ data.routes[1] # << >>
             THEN Returned(Some(data.routes[1][Len(data.routes[1])]), << >>)
             ELSE Raised("Exception: No route found")

fetch_route(resp, jsonCaught) ==
    IF resp.kind = "ConnectionError"
    THEN Returned(None, <<RouteErrorLine("ConnectionError")>>)
    ELSE IF resp.status >= 400
    THEN Returned(None, <<RouteErrorLine("HTTPError")>>)
    ELSE IF resp.json = None
    THEN IF jsonCaught
         THEN Returned(None, <<RouteErrorLine("JSONDecodeError")>>)
         ELSE Raised("JSONDecodeError")
    ELSE LET data == resp.json[1]
         IN  IF data.routes # None /\ data.routes[1] # << >>
             THEN Returned(Some(data.routes[1][1]), << >>)
             ELSE Raised("Exception: No route found")


\* fetch_realtime_data without its except clause
fetch_realtime_data_reraise(resp, jsonCaught) ==
    IF resp.kind = "ConnectionError"
    THEN Raised("ConnectionError")
    ELSE IF resp.status >= 400
    THEN Raised("HTTPError")
    ELSE IF resp.json = None
    THEN Raised("JSONDecodeError")
    ELSE LET data == resp.json[1]
         IN  Returned(<<data.cost, data.emissions>>, << >>)

fetch_realtime_data(resp, jsonCaught) ==
    IF resp.kind = "ConnectionError"
    THEN Returned(<<None, None>>, <<RealtimeErrorLine("ConnectionError")>>)
    ELSE IF resp.status >= 400
    THEN Returned(<<None, None>>, <<RealtimeErrorLine("HTTPError")>>)
    ELSE IF resp.json = None
    THEN IF jsonCaught
         THEN Returned(<<None, None>>, <<RealtimeErrorLine("JSONDecodeError")>>)
         ELSE Raised("JSONDecodeError")
    ELSE LET data == resp.json[1]
         IN  Returned(<<data.cost, data.emissions>>, << >>)


\* calculate_emissions with EMISSION_FACTORS.get(mode, 0.0)
calculate_emissions_default(dkm, m) ==
    LET emission_factor ==
            IF m \in DOMAIN EMISSION_FACTORS THEN Some(EMISSION_FACTORS[m]) ELSE Some(0)
    IN  Returned(Some(dkm * emission_factor[1]), << >>)

\* calculate_emissions returning round(distance_km * emission_factor, 2)
calculate_emissions_rounded(dkm, m) ==
    LET emission_factor ==
            IF m \in DOMAIN EMISSION_FACTORS THEN Some(EMISSION_FACTORS[m]) ELSE None
    IN  IF emission_factor = None
        THEN Returned(None, <<FactorNotFoundLine(m)>>)
        ELSE Returned(Some(((dkm * emission_factor[1]) \div 10000) * 10000), << >>)

calculate_emissions(dkm, m) ==
    LET emission_factor ==
            IF m \in DOMAIN EMISSION_FACTORS THEN Some(EMISSION_FACTORS[m]) ELSE None
    IN  IF emission_factor = None
        THEN Returned(None, <<FactorNotFoundLine(m)>>)
        ELSE Returned(Some(dkm * emission_factor[1]), << >>)

\* route['distance'] / 1000.0, in units of 1/Milli km
ToKm(metres) == (metres * Milli) \div 1000

----------------------------------------------------------------------------
(* main *)

Init ==
    /\ pc = "fetch_route"
    /\ mode \in Modes
    /\ route = None
    /\ distance_km = None
    /\ real_time_cost = None
    /\ estimated_emissions = None
    /\ out = << >>
    /\ calls = << >>
    /\ fault = "none"
    /\ routingService \in RoutingResponses
    /\ realtimeService \in RealtimeResponses
    /\ jsonErrorIsRequestException \in BOOLEAN


\* main calling fetch_route again after a failed attempt
FetchRoute_Retry ==
    /\ pc = "fetch_route"
    /\ Len(calls) < 2
    /\ LET r == fetch_route(routingService, jsonErrorIsRequestException)
       IN  /\ calls' = Append(calls,
                  [fn |-> "fetch_route",
                   path |-> <<start_location[2], start_location[1],
                              end_location[2], end_location[1]>>])
           /\ out' = out \o r.printed
           /\ IF r.raised = "none"
              THEN /\ route' = r.ret
                   /\ pc' = IF r.ret = None /\ Len(calls) = 0
                            THEN "fetch_route" ELSE "check_route"
                   /\ fault' = fault
              ELSE /\ route' = route
                   /\ pc' = "crashed"
                   /\ fault' = r.raised
    /\ UNCHANGED <<mode, distance_km, real_time_cost, estimated_emissions,
                   routingService, realtimeService, jsonErrorIsRequestException>>

\* line 68: route = fetch_route(start_location, end_location, mode)
FetchRoute ==
    /\ pc = "fetch_route"
    /\ LET r == fetch_route(routingService, jsonErrorIsRequestException)
       IN  /\ calls' = Append(calls,
                  [fn |-> "fetch_route",
                   path |-> <<start_location[2], start_location[1],
                              end_location[2], end_location[1]>>])
           /\ out' = out \o r.printed
           /\ IF r.raised = "none"
              THEN /\ route' = r.ret
                   /\ pc' = "check_route"
                   /\ fault' = fault
              ELSE /\ route' = route
                   /\ pc' = "crashed"
                   /\ fault' = r.raised
    /\ UNCHANGED <<mode, distance_km, real_time_cost, estimated_emissions,
                   routingService, realtimeService, jsonErrorIsRequestException>>

\* lines 70-72: if not route: print(...); return
CheckRoute ==
    /\ pc = "check_route"
    /\ IF ~TruthyDict(route)
       THEN /\ out' = Append(out, NoRouteLine)
            /\ pc' = "done"
       ELSE /\ out' = out
            /\ pc' = "distance"
    /\ UNCHANGED <<mode, route, distance_km, real_time_cost, estimated_emissions,
                   calls, fault, routingService, realtimeService,
                   jsonErrorIsRequestException>>

\* line 75: distance_km = route['distance'] / 1000.0
ComputeDistance ==
    /\ pc = "distance"
    /\ distance_km' = Some(ToKm(route[1].distance))
    /\ pc' = "fetch_realtime_data"
    /\ UNCHANGED <<mode, route, real_time_cost, estimated_emissions, out, calls,
                   fault, routingService, realtimeService,
                   jsonErrorIsRequestException>>

\* line 78: real_time_cost, _ = fetch_realtime_data(mode)
FetchRealtime ==
    /\ pc = "fetch_realtime_data"
    /\ LET r == fetch_realtime_data(realtimeService, jsonErrorIsRequestException)
       IN  /\ calls' = Append(calls, [fn |-> "fetch_realtime_data", mode |-> mode])
           /\ out' = out \o r.printed
           /\ IF r.raised = "none"
              THEN /\ real_time_cost' = r.ret[1]
                   /\ pc' = "calculate_emissions"
                   /\ fault' = fault
              ELSE /\ real_time_cost' = real_time_cost
                   /\ pc' = "crashed"
                   /\ fault' = r.raised
    /\ UNCHANGED <<mode, route, distance_km, estimated_emissions,
                   routingService, realtimeService, jsonErrorIsRequestException>>

\* line 81: estimated_emissions = calculate_emissions(distance_km, mode)
CalculateEmissions ==
    /\ pc = "calculate_emissions"
    /\ LET r == calculate_emissions(distance_km[1], mode)
       IN  /\ calls' = Append(calls,
                  [fn |-> "calculate_emissions",
                   distance_km |-> distance_km[1], mode |-> mode])
           /\ out' = out \o r.printed
           /\ estimated_emissions' = r.ret
    /\ pc' = "display"
    /\ UNCHANGED <<mode, route, distance_km, real_time_cost, fault,
                   routingService, realtimeService, jsonErrorIsRequestException>>


\* the report testing "real_time_cost is not None"
Display_CostNotNone ==
    /\ pc = "display"
    /\ \E d \in Fmt2(distance_km[1], Milli) :
          LET costPart ==
                  IF real_time_cost # None
                  THEN {<<CostLine(c)>> : c \in Fmt2(real_time_cost[1], Milli)}
                  ELSE {<< >>}
              emissionsPart ==
                  IF estimated_emissions # None
                  THEN {<<EmissionsLine(e)>> : e \in Fmt2(estimated_emissions[1], Micro)}
                  ELSE {<< >>}
          IN  \E c \in costPart, e \in emissionsPart :
                 out' = out \o <<HeaderLine(mode), DistanceLine(d)>> \o c \o e
    /\ pc' = "done"
    /\ UNCHANGED <<mode, route, distance_km, real_time_cost, estimated_emissions,
                   calls, fault, routingService, realtimeService,
                   jsonErrorIsRequestException>>

\* the report testing "if estimated_emissions:"
Display_EmissionsTruthy ==
    /\ pc = "display"
    /\ \E d \in Fmt2(distance_km[1], Milli) :
          LET costPart ==
                  IF TruthyNumber(real_time_cost)
                  THEN {<<CostLine(c)>> : c \in Fmt2(real_time_cost[1], Milli)}
                  ELSE {<< >>}
              emissionsPart ==
                  IF TruthyNumber(estimated_emissions)
                  THEN {<<EmissionsLine(e)>> : e \in Fmt2(estimated_emissions[1], Micro)}
                  ELSE {<< >>}
          IN  \E c \in costPart, e \in emissionsPart :
                 out' = out \o <<HeaderLine(mode), DistanceLine(d)>> \o c \o e
    /\ pc' = "done"
    /\ UNCHANGED <<mode, route, distance_km, real_time_cost, estimated_emissions,
                   calls, fault, routingService, realtimeService,
                   jsonErrorIsRequestException>>

\* lines 84-89: the report
Display ==
    /\ pc = "display"
    /\ \E d \in Fmt2(distance_km[1], Milli) :
          LET costPart ==
                  IF TruthyNumber(real_time_cost)
                  THEN {<<CostLine(c)>> : c \in Fmt2(real_time_cost[1], Milli)}
                  ELSE {<< >>}
              emissionsPart ==
                  IF estimated_emissions # None
                  THEN {<<EmissionsLine(e)>> : e \in Fmt2(estimated_emissions[1], Micro)}
                  ELSE {<< >>}
          IN  \E c \in costPart, e \in emissionsPart :
                 out' = out \o <<HeaderLine(mode), DistanceLine(d)>> \o c \o e
    /\ pc' = "done"
    /\ UNCHANGED <<mode, route, distance_km, real_time_cost, estimated_emissions,
                   calls, fault, routingService, realtimeService,
                   jsonErrorIsRequestException>>

Next ==
    \/ FetchRoute
    \/ CheckRoute
    \/ ComputeDistance
    \/ FetchRealtime
    \/ CalculateEmissions
    \/ Display

Spec == Init /\ [][Next]_vars

\* every statement of main runs to completion: each blocking call returns
FairSpec == Spec /\ WF_vars(Next)

----------------------------------------------------------------------------
(* Vocabulary of the properties *)

Kinds(lines) == [i \in 1..Len(lines) |-> lines[i].kind]

HasLine(k) == \E i \in 1..Len(out) : out[i].kind = k

CallNames == [i \in 1..Len(calls) |-> calls[i].fn]

Is200(resp) == resp.kind = "Response" /\ resp.status = 200

\* connection error or non-2xx status
TransportFailure(resp) ==
    resp.kind = "ConnectionError" \/ (resp.kind = "Response" /\ resp.status # 200)

\* a 200 whose body does not parse
MalformedJson(resp) == Is200(resp) /\ resp.json = None

\* a 200 whose body parses and holds no route
ZeroRoutes(resp) ==
    /\ Is200(resp)
    /\ resp.json # None
    /\ (resp.json[1].routes = None \/ resp.json[1].routes[1] = << >>)

\* a 200 whose body parses and holds at least one route
HasRoutes(resp) ==
    /\ Is200(resp)
    /\ resp.json # None
    /\ resp.json[1].routes # None
    /\ resp.json[1].routes[1] # << >>

RouteList == routingService.json[1].routes[1]

\* the cost field of the real-time answer, None when there is none
ServiceCost ==
    IF Is200(realtimeService) /\ realtimeService.json # None
    THEN realtimeService.json[1].cost
    ELSE None

KnownMode == mode \in {"car", "bus", "bike", "walk"}

Terminated == pc \in {"done", "crashed"}

AfterEmissions == pc \in {"display", "done"}

\* calculate_emissions has been called and has returned
EmissionsDone == Len(calls) = 3

----------------------------------------------------------------------------
(* C1 *)

\* C1: when the routing answer is well formed and holds zero routes,
\* fetch_route returns None without raising, and main prints the
\* "Couldn't retrieve the route." line, makes no further call and ends
\* normally.
C1_ZeroRoutesShortCircuits ==
    (ZeroRoutes(routingService) /\ pc # "fetch_route") =>
        /\ fault = "none"
        /\ pc \in {"check_route", "done"}
        /\ route = None
        /\ CallNames = <<"fetch_route">>
        /\ pc = "done" => out[Len(out)] = NoRouteLine

----------------------------------------------------------------------------
(* C2 *)

\* C2: when the routing call fails at transport level, fetch_route reports
\* the error and returns None without raising; main prints the
\* "Couldn't retrieve the route." line and nothing else, calls neither
\* fetch_realtime_data nor calculate_emissions, and ends normally.
C2_TransportFailureShortCircuits ==
    (TransportFailure(routingService) /\ pc # "fetch_route") =>
        /\ fault = "none"
        /\ pc \in {"check_route", "done"}
        /\ route = None
        /\ CallNames = <<"fetch_route">>
        /\ Len(out) >= 1 /\ out[1].kind = "Error fetching route"
        /\ pc = "check_route" => Len(out) = 1
        /\ pc = "done" => SubSeq(out, 2, Len(out)) = <<NoRouteLine>>

W2_Http500Done ==
    /\ routingService = Response(500, None)
    /\ pc = "done"
    /\ out = <<RouteErrorLine("HTTPError"), NoRouteLine>>

----------------------------------------------------------------------------
(* C3 *)

\* C3: when the routing call succeeds and the real-time call fails at
\* transport level, fetch_realtime_data reports the error and returns
\* (None, None) without raising, and main runs to the end: header and
\* distance line, no cost line, and the emissions line of a mode of the
\* factor table (500000 m by car: 500.00 km and 135.50 kg CO2).
C3_RealtimeFailureContinues ==
    (HasRoutes(routingService) /\ TransportFailure(realtimeService)) =>
        /\ fault = "none" /\ pc # "crashed"
        /\ LET r == fetch_realtime_data(realtimeService, jsonErrorIsRequestException)
           IN  /\ r.ret = <<None, None>>
               /\ r.raised = "none"
               /\ Kinds(r.printed) = <<"Error fetching real-time data">>
        /\ Len(calls) >= 2 =>
              /\ real_time_cost = None
              /\ out[1].kind = "Error fetching real-time data"
        /\ pc = "done" =>
              /\ Kinds(out) =
                    <<"Error fetching real-time data">>
                    \o (IF KnownMode THEN << >> ELSE <<"Emission factor not found">>)
                    \o <<"Route from", "Distance">>
                    \o (IF KnownMode THEN <<"Estimated emissions">> ELSE << >>)
              /\ (RouteList[1].distance = 500000 /\ mode = "car") =>
                    SubSeq(out, 2, Len(out)) =
                        <<HeaderLine("car"), DistanceLine(50000), EmissionsLine(13550)>>

W3_RealtimeDownReport ==
    /\ pc = "done"
    /\ realtimeService = ConnectionError
    /\ mode = "car"
    /\ route = Some([distance |-> 500000])
    /\ out = <<RealtimeErrorLine("ConnectionError"), HeaderLine("car"),
               DistanceLine(50000), EmissionsLine(13550)>>

----------------------------------------------------------------------------
(* C4 *)

\* C4: main ends in an uncaught fault only when a JSON body fails to
\* parse; for every other outcome of the two HTTP calls it ends normally.
C4_OnlyMalformedJsonFaults ==
    (pc = "crashed" \/ fault # "none") =>
        \/ MalformedJson(routingService)
        \/ (HasRoutes(routingService) /\ MalformedJson(realtimeService))

----------------------------------------------------------------------------
(* C5 *)

\* C5: for a mode outside the factor table and every distance,
\* calculate_emissions returns None, reports that the factor was not found
\* and raises nothing; a run of main with such a mode still prints the
\* header and the distance line, prints no emissions line and ends
\* normally.
C5_UnknownModeIsAbsent ==
    ~KnownMode =>
        /\ \A d \in Distances :
              LET r == calculate_emissions(ToKm(d), mode)
              IN  /\ r.ret = None
                  /\ r.raised = "none"
                  /\ r.printed = <<FactorNotFoundLine(mode)>>
        /\ Len(calls) = 3 =>
              /\ AfterEmissions
              /\ fault = "none"
              /\ estimated_emissions = None
              /\ out[Len(out)].kind = "Emission factor not found" \/ pc = "done"
        /\ (pc = "done" /\ TruthyDict(route)) =>
              /\ HasLine("Emission factor not found")
              /\ HasLine("Route from")
              /\ HasLine("Distance")
              /\ ~HasLine("Estimated emissions")

W5_UnknownModeReport ==
    /\ pc = "done"
    /\ mode = "train"
    /\ estimated_emissions = None
    /\ Kinds(out) = <<"Emission factor not found", "Route from", "Distance">>

----------------------------------------------------------------------------
(* C6 *)

\* C6: for a mode of the factor table and every distance >= 0,
\* calculate_emissions returns the distance times the mode's factor
\* (car 0.271, bus 0.105, bike 0, walk 0), unrounded, and reports nothing;
\* for bike and walk the result is 0 and never None.
C6Factor(m) == CASE m = "car" -> 271 [] m = "bus" -> 105 [] OTHER -> 0

C6_KnownModeIsProduct ==
    KnownMode =>
        /\ \A d \in Distances :
              LET r == calculate_emissions(ToKm(d), mode)
              IN  /\ r.ret = Some(d * C6Factor(mode))
                  /\ r.raised = "none"
                  /\ r.printed = << >>
                  /\ mode \in {"bike", "walk"} => r.ret = Some(0)
        /\ EmissionsDone =>
              /\ estimated_emissions = Some(route[1].distance * C6Factor(mode))
              /\ ~HasLine("Emission factor not found")

W6_UnroundedProduct ==
    /\ pc = "done"
    /\ mode = "car"
    /\ distance_km = Some(5)
    /\ estimated_emissions = Some(1355)

----------------------------------------------------------------------------
(* C7 *)

\* C7: in a run of main that obtained a route, the cost line is printed
\* exactly when the real-time cost is present and truthy; a failed
\* real-time call, an answer without a cost field and a cost of 0 print no
\* cost line, and in none of them does main print its failure line or stop
\* before the emissions step.
C7NoCostCase ==
    \/ TransportFailure(realtimeService)
    \/ (Is200(realtimeService) /\ realtimeService.json # None /\ ServiceCost = None)
    \/ ServiceCost = Some(0)

C7_CostLineIffTruthy ==
    TruthyDict(route) =>
        /\ pc = "done" =>
              /\ HasLine("Estimated cost") <=> (ServiceCost # None /\ ServiceCost[1] # 0)
              /\ HasLine("Estimated cost") =>
                    \E i \in 1..Len(out) :
                       /\ out[i].kind = "Estimated cost"
                       /\ out[i].hundredths * 10 - ServiceCost[1] \in -5..5
        /\ C7NoCostCase =>
              /\ pc # "crashed" /\ fault = "none"
              /\ ~HasLine("Estimated cost")
              /\ ~HasLine("Couldn't retrieve the route.")
              /\ pc = "done" => CallNames[3] = "calculate_emissions"
              /\ ~TransportFailure(realtimeService) =>
                    ~HasLine("Error fetching real-time data")

W7_ZeroCostNoLine ==
    /\ pc = "done"
    /\ TruthyDict(route)
    /\ ServiceCost = Some(0)
    /\ real_time_cost = Some(0)
    /\ ~HasLine("Estimated cost")
    /\ HasLine("Distance")

----------------------------------------------------------------------------
(* C8 *)

\* C8: when the routing answer holds at least one route, the distance main
\* uses and prints is the distance of the first route of the list divided
\* by 1000, whatever the other routes are, and that value is the one
\* passed to calculate_emissions.
C8_DistanceIsFirstRoute ==
    HasRoutes(routingService) =>
        /\ distance_km # None => distance_km[1] * 1000 = RouteList[1].distance * Milli
        /\ Len(calls) = 3 =>
              calls[3].distance_km * 1000 = RouteList[1].distance * Milli
        /\ pc = "done" =>
              \E i \in 1..Len(out) :
                 /\ out[i].kind = "Distance"
                 /\ out[i].hundredths * 10 - RouteList[1].distance \in -5..5

W8_FirstOfTwoRoutes ==
    /\ pc = "done"
    /\ HasRoutes(routingService)
    /\ Len(RouteList) = 2
    /\ RouteList[1].distance = 100000
    /\ RouteList[2].distance = 500000
    /\ distance_km = Some(100000)
    /\ calls[3].distance_km = 100000
    /\ HasLine("Distance")

----------------------------------------------------------------------------
(* C9 *)

PcRank(p) ==
    CASE p = "fetch_route" -> 0
      [] p = "check_route" -> 1
      [] p = "distance" -> 2
      [] p = "fetch_realtime_data" -> 3
      [] p = "calculate_emissions" -> 4
      [] p = "display" -> 5
      [] OTHER -> 6

ReportKinds == {"Route from", "Distance", "Estimated cost", "Estimated emissions"}

C9Order ==
    /\ \E n \in 0..3 :
          CallNames = SubSeq(<<"fetch_route", "fetch_realtime_data",
                               "calculate_emissions">>, 1, n)
    /\ pc = "fetch_route" <=> calls = << >>
    /\ pc = "fetch_route" => out = << >>
    /\ Len(calls) >= 2 => TruthyDict(route)
    /\ Len(calls) = 2 => pc \in {"calculate_emissions", "crashed"}
    /\ Len(calls) = 3 => (AfterEmissions /\ fault = "none")
    /\ (\E k \in ReportKinds : HasLine(k)) => (pc = "done" /\ Len(calls) = 3)

C9Step ==
    /\ PcRank(pc') > PcRank(pc)
    /\ Len(calls') \in {Len(calls), Len(calls) + 1}
    /\ SubSeq(calls', 1, Len(calls)) = calls
    /\ SubSeq(out', 1, Len(out)) = out

\* C9: every run of main is one linear pass that terminates: the routing
\* request is made exactly once and first, the real-time request at most
\* once and only after a route was obtained, calculate_emissions only after
\* the real-time request returned, no request is repeated, and the report
\* lines are printed only after all three calls returned.
C9_SingleLinearPass ==
    /\ []C9Order
    /\ [][C9Step]_vars
    /\ <>Terminated

W9_AllThreeCallsDone ==
    /\ pc = "done"
    /\ CallNames = <<"fetch_route", "fetch_realtime_data", "calculate_emissions">>
    /\ TransportFailure(realtimeService)

----------------------------------------------------------------------------
(* C10 *)

\* C10: in a run of main that obtained a route, the emissions line is
\* printed exactly when calculate_emissions returned a value other than
\* None; an emissions value of 0 still prints the line, whereas a cost of 0
\* prints no cost line.
C10_EmissionsLineIffNotNone ==
    (pc = "done" /\ TruthyDict(route)) =>
        /\ HasLine("Estimated emissions") <=> KnownMode
        /\ HasLine("Estimated emissions") <=> estimated_emissions # None
        /\ estimated_emissions = Some(0) => out[Len(out)] = EmissionsLine(0)
        /\ (KnownMode /\ (mode \in {"bike", "walk"} \/ route[1].distance = 0)) =>
              estimated_emissions = Some(0)
        /\ ServiceCost = Some(0) => ~HasLine("Estimated cost")

W10_ZeroEmissionsPrinted ==
    /\ pc = "done"
    /\ mode = "bike"
    /\ route = Some([distance |-> 100000])
    /\ estimated_emissions = Some(0)
    /\ ServiceCost = Some(0)
    /\ out = <<HeaderLine("bike"), DistanceLine(10000), EmissionsLine(0)>>

====
